---- MODULE Spec2Model ----
(***************************************************************************)
(* Interactive remote session drivers of sankahchan/One-UI (scripts/).     *)
(*                                                                         *)
(* Three drivers are modelled, one per shape the scripts take:             *)
(*   "select"   scripts/check_backend.py        run_ssh, called N times    *)
(*   "blocking" scripts/restart_backend_vps.py  run_ssh_command, one call  *)
(*   "prompt"   scripts/fix_git_update.py       module-level read loop     *)
(* The child (ssh on the slave side of the pty) is the environment: it may *)
(* emit any byte at any moment, stay silent, or exit.  Time is a discrete  *)
(* clock in seconds; the driver's computation takes no time, its sleeps,   *)
(* select timeouts and blocking calls do.                                  *)
(***************************************************************************)
EXTENDS Integers, Sequences, FiniteSets, TLC

\* ---------------------------------------------------------------- bounds
MaxOut     == 2      \* bytes one child emits at most
ReadMax    == 2      \* bytes one os.read returns at most (4096 / 1024 scaled)
MaxTimeout == 2      \* largest timeout a caller passes, in seconds
NSteps     == 2      \* run_ssh calls made by __main__ of the select driver

\* ------------------------------------------------------ program constants
GraceSeconds  == 2   \* time.sleep(2) before the initial read
SettleSeconds == 1   \* time.sleep(1) after the credential write
PollInterval  == 1   \* select.select([fd], [], [], 1)
GraceBlocking == 1   \* time.sleep(1) in run_ssh_command

Scripts  == {"select", "blocking", "prompt"}
Timeouts == 1..MaxTimeout

\* The clock is cut off one second after the longest step a deadline allows.
StepBound == GraceSeconds + SettleSeconds + MaxTimeout + PollInterval
MaxTime   == StepBound + 1

\* ------------------------------------------------------------------ bytes
\* "c3" "a9" is the UTF-8 encoding of one two-byte character; "a" is any
\* ASCII byte; Sentinel and Prompt are the markers scaled to two bytes.
Sentinel == <<"O", "K">>
Prompt   == <<"p", ":">>

Alphabet(s) ==
  CASE s = "select"   -> {"a", "c3", "a9"}
    [] s = "blocking" -> {"a", "O", "K", "c3"}
    [] s = "prompt"   -> {"a", "p", ":"}

\* t in s  (Python substring test)
Contains(s, t) ==
  \E i \in 0..(Len(s) - Len(t)) : SubSeq(s, i + 1, i + Len(t)) = t

RECURSIVE DecodeReplace(_)
\* bytes.decode(errors='replace')
DecodeReplace(b) ==
  IF b = <<>> THEN <<>>
  ELSE IF Head(b) = "c3"
       THEN IF Len(b) >= 2 /\ b[2] = "a9"
            THEN <<"U+00E9">> \o DecodeReplace(SubSeq(b, 3, Len(b)))
            ELSE <<"U+FFFD">> \o DecodeReplace(Tail(b))
       ELSE IF Head(b) = "a9"
            THEN <<"U+FFFD">> \o DecodeReplace(Tail(b))
            ELSE <<Head(b)>> \o DecodeReplace(Tail(b))

RECURSIVE DecodeIgnore(_)
\* bytes.decode('utf-8', errors='ignore')
DecodeIgnore(b) ==
  IF b = <<>> THEN <<>>
  ELSE IF Head(b) = "c3"
       THEN IF Len(b) >= 2 /\ b[2] = "a9"
            THEN <<"U+00E9">> \o DecodeIgnore(SubSeq(b, 3, Len(b)))
            ELSE DecodeIgnore(Tail(b))
       ELSE IF Head(b) = "a9"
            THEN DecodeIgnore(Tail(b))
            ELSE <<Head(b)>> \o DecodeIgnore(Tail(b))

\* bytes.decode() raises UnicodeDecodeError unless the bytes are valid UTF-8
ValidUtf8(b) == "U+FFFD" \notin {DecodeReplace(b)[i] : i \in 1..Len(DecodeReplace(b))}

RECURSIVE Encode(_)
\* str.encode(): the bytes a caller gets back from the text
Encode(t) ==
  IF t = <<>> THEN <<>>
  ELSE (CASE Head(t) = "U+00E9" -> <<"c3", "a9">>
          [] Head(t) = "U+FFFD" -> <<"ef", "bf", "bd">>
          [] OTHER              -> <<Head(t)>>) \o Encode(Tail(t))

RECURSIVE Join(_)
\* "".join(output)
Join(chunks) ==
  IF chunks = <<>> THEN <<>> ELSE Head(chunks) \o Join(Tail(chunks))

\* what os.read(fd, n) returns when bytes are pending: the first n at most
Chunk(b) == SubSeq(b, 1, IF Len(b) < ReadMax THEN Len(b) ELSE ReadMax)
Rest(b)  == SubSeq(b, Len(Chunk(b)) + 1, Len(b))

VARIABLES
  script,        \* which driver runs
  k,             \* index of the step (call) in progress
  pc,            \* driver position
  now,           \* seconds since the step's pty.fork()
  wake,          \* when the pending sleep / select times out
  timeout,       \* the step's timeout argument
  deadline,      \* deadline = time.time() + timeout
  drainStart,    \* when the read loop was entered
  child,         \* "none" | "running" | "exited" | "reaped"
  buf,           \* bytes the child wrote that the driver has not read
  emitted,       \* how many bytes the child wrote
  rawRead,       \* every byte os.read returned in this step, in order
  loopRead,      \* the bytes os.read returned inside the read loop
  output,        \* output list: the decoded chunks
  output_buffer, \* fix_git_update.py: the bytes accumulated
  printed,       \* the text the read loop printed to standard output
  password_sent, \* fix_git_update.py flag
  credWrites,    \* os.write calls of the credential that succeeded
  writeFailed,   \* an os.write of the credential raised OSError
  reason,        \* how the read loop ended
  atStart,       \* the stream as the read loop found it when entered
  collect,       \* does the caller keep what the calls return
  results,       \* values returned by the calls so far, when kept
  whys,          \* how the loop of each of those calls ended
  spawned,       \* steps whose pty.fork() was made
  returned,      \* steps whose call returned
  openFds        \* steps whose master fd is open in the driver

vars == <<script, k, pc, now, wake, timeout, deadline, drainStart, child, buf,
          emitted, rawRead, loopRead, output, output_buffer, printed,
          password_sent, credWrites, writeFailed, reason, atStart, collect,
          results, whys, spawned, returned, openFds>>

\* the call sequence of __main__, the pending timers, the stream and the
\* captured data: the groups an action leaves alone together
seqVars  == <<script, k, collect, results, whys, spawned, returned, openFds>>
timeVars == <<now, wake, timeout, deadline, drainStart>>
chanVars == <<child, buf, emitted>>
capVars  == <<rawRead, loopRead, output, output_buffer, printed, atStart>>
credVars == <<password_sent, credWrites, writeFailed>>

\* bytes one child emits at most: the single-call drivers get two more, so
\* that a marker can come twice
OutMax(s) == IF s = "select" THEN MaxOut ELSE MaxOut + 2

\* calls made by the script: three-fold in check_backend.py (scaled), one else
Calls(s) == IF s = "select" THEN NSteps ELSE 1

\* before the first call; __main__ of the scripts drops what run_ssh returns
Init ==
  /\ script \in Scripts
  /\ collect = FALSE
  /\ k = 1
  /\ pc = "call"
  /\ now = 0 /\ wake = 0 /\ timeout = 0 /\ deadline = 0 /\ drainStart = 0
  /\ child = "none"
  /\ buf = <<>> /\ emitted = 0
  /\ rawRead = <<>> /\ loopRead = <<>> /\ output = <<>>
  /\ output_buffer = <<>> /\ printed = <<>>
  /\ password_sent = FALSE /\ credWrites = 0 /\ writeFailed = FALSE
  /\ reason = "none"
  /\ atStart = [closed |-> FALSE, pending |-> <<>>]
  /\ results = <<>> /\ whys = <<>>
  /\ spawned = {} /\ returned = {} /\ openFds = {}

\* the slave side is open while the child lives
SlaveOpen == child = "running"
\* select reports the master readable when bytes are pending or on hang-up
Readable  == buf # <<>> \/ ~SlaveOpen

\* -------------------------------------------------------------- the child
\* the child writes one byte to the slave side
ChildEmit ==
  /\ child = "running" /\ emitted < OutMax(script)
  /\ \E b \in Alphabet(script) : buf' = Append(buf, b)
  /\ emitted' = emitted + 1
  /\ UNCHANGED <<pc, reason, child, seqVars, timeVars, capVars, credVars>>

\* the child exits; its slave side closes with it
ChildExit ==
  /\ child = "running"
  /\ child' = "exited"
  /\ UNCHANGED <<pc, reason, buf, emitted, seqVars, timeVars, capVars,
                 credVars>>

\* ------------------------------------------------------------------ time
\* the driver is inside a call that has not returned yet
Blocked ==
  \/ pc \in {"grace", "settle"} /\ now < wake
  \/ pc = "select" /\ ~Readable /\ now < wake
  \/ pc \in {"initial", "bread"} /\ ~Readable
  \/ pc = "waitpid" /\ child = "running"

\* one second passes while the driver waits
Tick ==
  /\ Blocked /\ now < MaxTime
  /\ now' = now + 1
  /\ UNCHANGED <<pc, reason, wake, timeout, deadline, drainStart, seqVars,
                 chanVars, capVars, credVars>>

\* --------------------------------------------------------- shared pieces
\* the per-call state a new call starts from
Fresh ==
  /\ now' = 0 /\ wake' = 0 /\ timeout' = 0 /\ deadline' = 0
  /\ drainStart' = 0
  /\ child' = "none" /\ buf' = <<>> /\ emitted' = 0
  /\ rawRead' = <<>> /\ loopRead' = <<>> /\ output' = <<>>
  /\ output_buffer' = <<>> /\ printed' = <<>>
  /\ password_sent' = FALSE /\ credWrites' = 0 /\ writeFailed' = FALSE
  /\ reason' = "none"
  /\ atStart' = [closed |-> FALSE, pending |-> <<>>]

\* time.sleep(n) returns when its n seconds are over
SleepOver_AtOnce(t, w) == TRUE
SleepOver(t, w) == t = w

\* except OSError: the handler of the read loops takes OSError and nothing
\* else (UnicodeDecodeError is a ValueError)
Caught_Nothing(e) == FALSE
Caught(e) == e = "OSError"

\* an exception nothing catches unwinds the call and __main__
Raise ==
  /\ pc' = "raised"
  /\ UNCHANGED seqVars

\* the call after call i in __main__
NextCall_Skip(i) == i + 2
NextCall(i) == i + 1

\* the call returns transcript t to __main__, which goes on to the next call
ReturnTo(t) ==
  /\ IF collect
     THEN results' = Append(results, t) /\ whys' = Append(whys, reason)
     ELSE UNCHANGED <<results, whys>>
  /\ returned' = returned \cup {k}
  /\ IF k < Calls(script)
     THEN k' = NextCall(k) /\ pc' = "call"
     ELSE k' = k /\ pc' = "done"
  /\ Fresh
  /\ UNCHANGED <<script, collect, spawned, openFds>>

\* ============================================ scripts/check_backend.py
\* while time.time() < deadline
BeforeDeadline_Inverted(t, d) == t > d
BeforeDeadline(t, d) == t < d
\* if not data
IsEof(data) == data = <<>>
\* if wpid != 0: waitpid with WNOHANG gives 0 while the child runs
HasExited_Never(c) == FALSE
HasExited(c) == c # "running"

\* check_backend.py:15-17  pid, fd = pty.fork(); it may raise OSError
RunSsh_Fork ==
  /\ script = "select" /\ pc = "call"
  /\ \/ /\ \E t \in Timeouts : timeout' = t
        /\ child' = "running"
        /\ spawned' = spawned \cup {k}
        /\ openFds' = openFds \cup {k}
        /\ pc' = "grace" /\ wake' = now + GraceSeconds
        /\ UNCHANGED <<script, k, collect, results, whys, returned, now,
                       deadline, drainStart, buf, emitted, reason, capVars,
                       credVars>>
     \/ /\ Raise
        /\ UNCHANGED <<spawned, reason, timeVars, chanVars, capVars,
                       credVars>>

\* check_backend.py:19  time.sleep(2) is over
RunSsh_Grace ==
  /\ script = "select" /\ pc = "grace" /\ SleepOver(now, wake)
  /\ pc' = "initial"
  /\ UNCHANGED <<reason, seqVars, timeVars, chanVars, capVars, credVars>>

\* check_backend.py:20-23  initial = os.read(fd, 4096): a blocking read
\* whose bytes are dropped; EOF and OSError are passed over
RunSsh_InitialRead ==
  /\ script = "select" /\ pc = "initial" /\ Readable
  /\ IF buf # <<>>
     THEN /\ rawRead' = rawRead \o Chunk(buf)
          /\ buf' = Rest(buf)
     ELSE UNCHANGED <<rawRead, buf>>
  /\ pc' = "write"
  /\ UNCHANGED <<reason, child, emitted, loopRead, output, output_buffer,
                 printed, atStart, seqVars, timeVars, credVars>>

\* check_backend.py:25  os.write(fd, PASSWORD + "\n"), outside any try; with
\* the slave closed the kernel may refuse it (EIO) or take it
RunSsh_Write ==
  /\ script = "select" /\ pc = "write"
  /\ \/ /\ credWrites' = credWrites + 1
        /\ pc' = "settle" /\ wake' = now + SettleSeconds
        /\ UNCHANGED <<reason, password_sent, writeFailed, now, timeout,
                       deadline, drainStart, seqVars, chanVars, capVars>>
     \/ /\ ~SlaveOpen
        /\ writeFailed' = TRUE
        /\ Raise
        /\ UNCHANGED <<reason, password_sent, credWrites, timeVars,
                       chanVars, capVars>>

\* check_backend.py:26-29  time.sleep(1) is over; output = []; deadline
RunSsh_Settle ==
  /\ script = "select" /\ pc = "settle" /\ SleepOver(now, wake)
  /\ output' = <<>>
  /\ deadline' = now + timeout
  /\ drainStart' = now
  /\ atStart' = [closed |-> ~SlaveOpen, pending |-> buf]
  /\ pc' = "loop"
  /\ UNCHANGED <<reason, now, wake, timeout, rawRead, loopRead,
                 output_buffer, printed, seqVars, chanVars, credVars>>

\* check_backend.py:30  while time.time() < deadline
RunSsh_LoopTest ==
  /\ script = "select" /\ pc = "loop"
  /\ IF BeforeDeadline(now, deadline)
     THEN pc' = "select" /\ wake' = now + PollInterval /\ reason' = reason
     ELSE pc' = "reap" /\ wake' = wake /\ reason' = "timeout"
  /\ UNCHANGED <<now, timeout, deadline, drainStart, seqVars, chanVars,
                 capVars, credVars>>

\* check_backend.py:32-33,39  r = select.select([fd], [], [], 1)
RunSsh_Select ==
  /\ script = "select" /\ pc = "select"
  /\ \/ Readable /\ pc' = "read"
     \/ ~Readable /\ now = wake /\ pc' = "probe"
  /\ UNCHANGED <<reason, seqVars, timeVars, chanVars, capVars, credVars>>

\* check_backend.py:34-38,46-47  data = os.read(fd, 4096).decode(...): a
\* chunk is appended; a closed stream gives an empty read or OSError (EIO)
RunSsh_Read ==
  /\ script = "select" /\ pc = "read"
  /\ \/ /\ ~IsEof(Chunk(buf))
        /\ output' = Append(output, DecodeReplace(Chunk(buf)))
        /\ printed' = printed \o DecodeReplace(Chunk(buf))
        /\ rawRead' = rawRead \o Chunk(buf)
        /\ loopRead' = loopRead \o Chunk(buf)
        /\ buf' = Rest(buf)
        /\ pc' = "loop"
        /\ UNCHANGED <<reason, child, emitted, output_buffer, atStart>>
     \/ /\ IsEof(Chunk(buf))
        /\ reason' = "eof"
        /\ pc' = "reap"
        /\ UNCHANGED <<chanVars, capVars>>
     \/ /\ buf = <<>>
        /\ reason' = "eio"
        /\ pc' = IF Caught("OSError") THEN "reap" ELSE "raised"
        /\ UNCHANGED <<chanVars, capVars>>
  /\ UNCHANGED <<seqVars, timeVars, credVars>>

\* check_backend.py:40-45  os.waitpid(pid, os.WNOHANG) after a select timeout
RunSsh_Probe ==
  /\ script = "select" /\ pc = "probe"
  /\ IF HasExited(child)
     THEN pc' = "reap" /\ child' = "reaped" /\ reason' = "exited"
     ELSE pc' = "loop" /\ child' = child /\ reason' = reason
  /\ UNCHANGED <<buf, emitted, seqVars, timeVars, capVars, credVars>>

\* check_backend.py:49-52  os.waitpid(pid, os.WNOHANG), errors passed over
RunSsh_Reap ==
  /\ script = "select" /\ pc = "reap"
  /\ child' = IF child = "exited" THEN "reaped" ELSE child
  /\ pc' = "return"
  /\ UNCHANGED <<reason, buf, emitted, seqVars, timeVars, capVars,
                 credVars>>

\* check_backend.py:54  return "".join(output)
RunSsh_Return ==
  /\ script = "select" /\ pc = "return"
  /\ ReturnTo(Join(output))

NextSelect ==
  \/ RunSsh_Fork \/ RunSsh_Grace \/ RunSsh_InitialRead \/ RunSsh_Write
  \/ RunSsh_Settle \/ RunSsh_LoopTest \/ RunSsh_Select \/ RunSsh_Read
  \/ RunSsh_Probe \/ RunSsh_Reap \/ RunSsh_Return

\* ====================================== scripts/restart_backend_vps.py
\* if "RESTART_SUCCESS" in data
SentinelSeen_Never(data) == FALSE
SentinelSeen(data) == Contains(data, Sentinel)

\* restart_backend_vps.py:14-17  pid, fd = pty.fork()
RunSshCommand_Fork ==
  /\ script = "blocking" /\ pc = "call"
  /\ \/ /\ child' = "running"
        /\ spawned' = spawned \cup {k}
        /\ openFds' = openFds \cup {k}
        /\ pc' = "grace" /\ wake' = now + GraceBlocking
        /\ UNCHANGED <<script, k, collect, results, whys, returned, now,
                       timeout, deadline, drainStart, buf, emitted, reason,
                       capVars, credVars>>
     \/ /\ Raise
        /\ UNCHANGED <<spawned, reason, timeVars, chanVars, capVars,
                       credVars>>

\* restart_backend_vps.py:20  time.sleep(1) is over
RunSshCommand_Grace ==
  /\ script = "blocking" /\ pc = "grace" /\ SleepOver(now, wake)
  /\ pc' = "write"
  /\ UNCHANGED <<reason, seqVars, timeVars, chanVars, capVars, credVars>>

\* restart_backend_vps.py:21-23  os.write(fd, password + "\n"); output = []
RunSshCommand_Write ==
  /\ script = "blocking" /\ pc = "write"
  /\ \/ /\ credWrites' = credWrites + 1
        /\ output' = <<>>
        /\ drainStart' = now
        /\ atStart' = [closed |-> ~SlaveOpen, pending |-> buf]
        /\ pc' = "bread"
        /\ UNCHANGED <<reason, password_sent, writeFailed, now, wake,
                       timeout, deadline, rawRead, loopRead, output_buffer,
                       printed, seqVars, chanVars>>
     \/ /\ ~SlaveOpen
        /\ writeFailed' = TRUE
        /\ Raise
        /\ UNCHANGED <<reason, password_sent, credWrites, timeVars,
                       chanVars, capVars>>

\* restart_backend_vps.py:24-34  data = os.read(fd, 1024).decode(): a blocking
\* read; the strict decode raises UnicodeDecodeError, which is no OSError
RunSshCommand_Read ==
  /\ script = "blocking" /\ pc = "bread" /\ Readable
  /\ \/ /\ buf # <<>> /\ ValidUtf8(Chunk(buf))
        /\ output' = Append(output, DecodeReplace(Chunk(buf)))
        /\ printed' = printed \o DecodeReplace(Chunk(buf))
        /\ rawRead' = rawRead \o Chunk(buf)
        /\ loopRead' = loopRead \o Chunk(buf)
        /\ buf' = Rest(buf)
        /\ IF SentinelSeen(DecodeReplace(Chunk(buf)))
           THEN pc' = "waitpid" /\ reason' = "sentinel"
           ELSE pc' = "bread" /\ reason' = reason
        /\ UNCHANGED <<child, emitted, output_buffer, atStart, seqVars>>
     \/ /\ buf # <<>> /\ ~ValidUtf8(Chunk(buf))
        /\ rawRead' = rawRead \o Chunk(buf)
        /\ loopRead' = loopRead \o Chunk(buf)
        /\ buf' = Rest(buf)
        /\ ~Caught("UnicodeDecodeError")
        /\ Raise
        /\ UNCHANGED <<reason, child, emitted, output, output_buffer,
                       printed, atStart>>
     \/ /\ buf = <<>>
        /\ reason' = "eof"
        /\ pc' = "waitpid"
        /\ UNCHANGED <<chanVars, capVars, seqVars>>
     \/ /\ buf = <<>>
        /\ reason' = "eio"
        /\ pc' = IF Caught("OSError") THEN "waitpid" ELSE "raised"
        /\ UNCHANGED <<chanVars, capVars, seqVars>>
  /\ UNCHANGED <<timeVars, credVars>>

\* restart_backend_vps.py:36  os.waitpid(pid, 0) returns once the child exits
RunSshCommand_Waitpid ==
  /\ script = "blocking" /\ pc = "waitpid" /\ child = "exited"
  /\ child' = "reaped"
  /\ pc' = "return"
  /\ UNCHANGED <<reason, buf, emitted, seqVars, timeVars, capVars,
                 credVars>>

\* restart_backend_vps.py:37  return "".join(output)
RunSshCommand_Return ==
  /\ script = "blocking" /\ pc = "return"
  /\ ReturnTo(Join(output))

NextBlocking ==
  \/ RunSshCommand_Fork \/ RunSshCommand_Grace \/ RunSshCommand_Write
  \/ RunSshCommand_Read \/ RunSshCommand_Waitpid \/ RunSshCommand_Return

\* ========================================== scripts/fix_git_update.py
\* text = output_buffer.decode('utf-8', errors='ignore'): the text the prompt
\* is looked for in is decoded from all the bytes accumulated
PromptText_Chunk(acc, chunk) == DecodeIgnore(chunk)
PromptText(acc, chunk) == DecodeIgnore(acc)
\* if "password:" in text and not password_sent
MaySend_NoGate(text, sent) == Contains(text, Prompt)
MaySend(text, sent) == Contains(text, Prompt) /\ ~sent

\* fix_git_update.py:15-21  pid, fd = pty.fork(); output_buffer = b""
FixGitUpdate_Fork ==
  /\ script = "prompt" /\ pc = "call"
  /\ \/ /\ child' = "running"
        /\ spawned' = spawned \cup {k}
        /\ openFds' = openFds \cup {k}
        /\ output_buffer' = <<>>
        /\ password_sent' = FALSE
        /\ drainStart' = now
        /\ pc' = "bread"
        /\ UNCHANGED <<script, k, collect, results, whys, returned, now,
                       wake, timeout, deadline, buf, emitted, reason,
                       rawRead, loopRead, output, printed, atStart,
                       credWrites, writeFailed>>
     \/ /\ Raise
        /\ UNCHANGED <<spawned, reason, timeVars, chanVars, capVars,
                       credVars>>

\* fix_git_update.py:23-36  chunk = os.read(fd, 1024); the credential is
\* written inside the try, so a failed write ends the loop
FixGitUpdate_Read ==
  /\ script = "prompt" /\ pc = "bread" /\ Readable
  /\ \/ /\ buf # <<>>
        /\ output_buffer' = output_buffer \o Chunk(buf)
        /\ printed' = printed \o DecodeIgnore(output_buffer')
        /\ rawRead' = rawRead \o Chunk(buf)
        /\ loopRead' = loopRead \o Chunk(buf)
        /\ buf' = Rest(buf)
        /\ UNCHANGED <<child, emitted, output, atStart>>
        /\ IF MaySend(PromptText(output_buffer', Chunk(buf)), password_sent)
           THEN \/ /\ credWrites' = credWrites + 1
                   /\ password_sent' = TRUE
                   /\ pc' = "bread"
                   /\ UNCHANGED <<reason, writeFailed>>
                \/ /\ ~SlaveOpen
                   /\ writeFailed' = TRUE
                   /\ reason' = "eio"
                   /\ pc' = "close"
                   /\ UNCHANGED <<password_sent, credWrites>>
           ELSE /\ pc' = "bread"
                /\ UNCHANGED <<reason, credVars>>
     \/ /\ buf = <<>>
        /\ reason' = "eof"
        /\ pc' = "close"
        /\ UNCHANGED <<chanVars, capVars, credVars>>
     \/ /\ buf = <<>>
        /\ reason' = "eio"
        /\ pc' = "close"
        /\ UNCHANGED <<chanVars, capVars, credVars>>
  /\ UNCHANGED <<seqVars, timeVars>>

\* fix_git_update.py:38  os.close(fd)
FixGitUpdate_Close ==
  /\ script = "prompt" /\ pc = "close"
  /\ openFds' = openFds \ {k}
  /\ pc' = "waitpid"
  /\ UNCHANGED <<reason, script, k, collect, results, whys, spawned,
                 returned, timeVars, chanVars, capVars, credVars>>

\* fix_git_update.py:39  os.waitpid(pid, 0)
FixGitUpdate_Waitpid ==
  /\ script = "prompt" /\ pc = "waitpid" /\ child = "exited"
  /\ child' = "reaped"
  /\ pc' = "return"
  /\ UNCHANGED <<reason, buf, emitted, seqVars, timeVars, capVars,
                 credVars>>

\* the script ends; what it captured is output_buffer
FixGitUpdate_End ==
  /\ script = "prompt" /\ pc = "return"
  /\ ReturnTo(output_buffer)

NextPrompt ==
  \/ FixGitUpdate_Fork \/ FixGitUpdate_Read \/ FixGitUpdate_Close
  \/ FixGitUpdate_Waitpid \/ FixGitUpdate_End

Next == NextSelect \/ NextBlocking \/ NextPrompt \/ ChildEmit \/ ChildExit \/ Tick

Spec == Init /\ [][Next]_vars

\* check_backend.py alone, under a caller that keeps the transcripts the
\* calls return
InitSelect ==
  /\ script = "select"
  /\ collect = TRUE
  /\ k = 1
  /\ pc = "call"
  /\ now = 0 /\ wake = 0 /\ timeout = 0 /\ deadline = 0 /\ drainStart = 0
  /\ child = "none"
  /\ buf = <<>> /\ emitted = 0
  /\ rawRead = <<>> /\ loopRead = <<>> /\ output = <<>>
  /\ output_buffer = <<>> /\ printed = <<>>
  /\ password_sent = FALSE /\ credWrites = 0 /\ writeFailed = FALSE
  /\ reason = "none"
  /\ atStart = [closed |-> FALSE, pending |-> <<>>]
  /\ results = <<>> /\ whys = <<>>
  /\ spawned = {} /\ returned = {} /\ openFds = {}
NextOfSelect == NextSelect \/ ChildEmit \/ ChildExit \/ Tick
SpecSelect == InitSelect /\ [][NextOfSelect]_vars

\* =============================================================== claims
\* positions inside the read loop
DrainPcs == {"loop", "select", "read", "probe", "bread"}
\* the script is over: it ran to its end or an exception unwound it
RunOver == pc \in {"done", "raised"}
\* the exits of the read loop, by the name the caller would be told
Outcome(r) ==
  CASE r \in {"eof", "eio"} -> "stream-closed"
    [] r = "exited"         -> "process-exited"
    [] OTHER                -> r

\* C1, as stated: every session writes the credential line exactly once -
\* never twice, and never zero times by the time its step returns.
C1_ExactlyOnce ==
  /\ credWrites <= 1
  /\ pc = "return" => credWrites = 1

\* C1, amended: the credential line is written at most once per session,
\* however often the prompt shows up; a fixed-delay call that returns wrote
\* it exactly once; the prompt-detecting loop wrote it exactly once if and
\* only if the accumulated text contains the prompt and the write succeeded.
C1_AtMostOnce ==
  /\ credWrites <= 1
  /\ script # "prompt" /\ pc = "return" => credWrites = 1
  /\ script = "prompt" /\ pc \in {"bread", "close", "waitpid", "return"}
       => (credWrites = 1 <=>
             Contains(DecodeIgnore(output_buffer), Prompt) /\ ~writeFailed)

\* the prompt came twice and the credential was written once
C1_Witness ==
  script = "prompt" /\ output_buffer = Prompt \o Prompt /\ credWrites = 1

\* C2: the read loop returns within timeout + polling interval of its start
\* (the drivers that take no timeout are held to the largest one).
C2_DrainBounded ==
  pc \in DrainPcs =>
    now - drainStart <=
      (IF script = "select" THEN timeout ELSE MaxTimeout) + PollInterval

C4_FailOpen ==
  RunOver =>
    /\ returned = 1..Calls(script)
    /\ collect => Len(results) = Calls(script)

\* the bytes are well-formed UTF-8 as far as they go: valid, or valid once
\* the character they stop in is completed
WellFormedSoFar(b) == ValidUtf8(b) \/ ValidUtf8(b \o <<"a9">>)

\* C5: the chunks accumulated, concatenated in order, are exactly the bytes
\* read in the loop - held to it for well-formed output only, which can be
\* decoded without loss.
C5_RoundTrip ==
  IF script = "prompt"
  THEN output_buffer = loopRead
  ELSE WellFormedSoFar(loopRead) => Encode(Join(output)) = loopRead

C7_StepBounded ==
  pc \notin {"call", "done", "raised"} => now <= StepBound

\* C8: no failure inside a step keeps a later step from running.
C8_FailuresStayInStep ==
  ~(pc = "raised" /\ k < Calls(script))

\* C9: the value a call returns tells how its loop ended: two calls that
\* return the same transcript ended for the same reason.
C9_ReasonInResult ==
  \A i, j \in DOMAIN results :
    results[i] = results[j] => Outcome(whys[i]) = Outcome(whys[j])

\* C10: a session is spawned only after every earlier call has returned,
\* and at most one session - the one of the call in progress - is being
\* read at any moment.
C10_Sequential ==
  /\ \A j \in spawned : \A i \in 1..(j - 1) : i \in returned
  /\ Cardinality(spawned \ returned) <= 1
  /\ pc \in DrainPcs \cup {"initial"} => spawned \ returned = {k}

\* the second session is being read, the first call having returned
C10_Witness ==
  script = "select" /\ returned = {1} /\ pc = "read"

\* C11: the sentinel is looked for in the transcript accumulated so far, so
\* the read loop is never about to read again once the chunks appended,
\* joined, contain the sentinel - also when it came split over two chunks.
C11_SplitSentinel ==
  script = "blocking" /\ pc = "bread" => ~Contains(Join(output), Sentinel)

\* the step the exit probe closes: a select that timed out unreadable, then
\* the probe that finds the child gone and ends the loop
ProbeStep ==
  /\ pc = "select" /\ pc' = "probe" => ~Readable /\ now = wake
  /\ pc = "select" /\ Readable => pc' \in {"select", "read"}
  /\ pc = "probe" /\ child # "running" =>
       pc' = "reap" /\ reason' = "exited" /\ output' = output
  /\ pc = "probe" /\ pc' = "loop" => child = "running"

C13_ReapNeverWaits ==
  pc \in {"reap", "close", "waitpid", "return"} => ~Blocked

\* C14: the master fd of a step is released when the step returns: at most
\* one is open at any time, none of a returned step, none after the run.
C14_HandleReleased ==
  /\ Cardinality(openFds) <= 1
  /\ openFds \cap returned = {}
  /\ pc = "done" => openFds = {}

\* the steps around a failed read: the handler ends the loop, and from the
\* error to the return the chunks appended stay as they are
StreamErrorStep ==
  /\ reason # "eio" /\ reason' = "eio" =>
       output' = output /\ pc' \in {"reap", "waitpid"}
  /\ reason = "eio" /\ pc' \notin {"call", "done"} =>
       /\ output' = output /\ reason' = "eio"
       /\ pc' \in {"reap", "waitpid", "return"}

\* C15: a read that fails with a stream error ends the loop of that step;
\* no exception leaves the step, and the chunks appended before the error
\* are all still in the transcript when the step returns.
C15_StreamErrorKeepsTranscript ==
  [][(script # "prompt") => StreamErrorStep]_vars

\* a chunk was appended, then the read failed, and the call is returning
C15_Witness ==
  script = "select" /\ reason = "eio" /\ pc = "return" /\ output # <<>>

\* C16: in the prompt-detecting loop the credential has been written exactly
\* when the text accumulated over all reads contains the prompt, however
\* the prompt was cut into reads, and not before.
C16_PromptOnAccumulated ==
  script = "prompt" /\ pc = "bread" =>
    /\ credWrites >= 1 => Contains(DecodeIgnore(output_buffer), Prompt)
    /\ Contains(DecodeIgnore(output_buffer), Prompt) =>
         credWrites = 1 /\ password_sent

\* the prompt came over two reads ("p", then ":") and the credential was
\* written
C16_Witness ==
  script = "prompt" /\ printed = <<"p", "p", ":">> /\ credWrites = 1

\* C17: the credential is written after the spawn, and only after the grace
\* delay (fixed-delay drivers) or after output was read (prompt detection);
\* in the fixed-delay drivers it is written before the read loop is entered
\* and before any chunk is appended.
C17_WriteOrder ==
  /\ credWrites >= 1 =>
       /\ k \in spawned /\ child # "none"
       /\ script = "select" => now >= GraceSeconds
       /\ script = "blocking" => now >= GraceBlocking
       /\ script = "prompt" => rawRead # <<>>
  /\ script # "prompt" /\ (output # <<>> \/ pc \in DrainPcs) =>
       credWrites = 1

\* run_ssh has slept, written the credential and appended a first chunk
C17_Witness ==
  /\ script = "select" /\ pc = "loop" /\ credWrites = 1
  /\ output # <<>> /\ now >= GraceSeconds + SettleSeconds

\* C18: when the loop of run_ssh ends because the child was found exited,
\* no byte the child wrote is left unread in the stream.
C18_ExitLosesNoOutput ==
  script = "select" /\ reason = "exited" => buf = <<>>

\* C19: every byte run_ssh read from the stream in the step is among the
\* bytes of the chunks it appended, the read before the credential write
\* included.
C19_InitialReadKept ==
  script = "select" /\ pc = "return" => rawRead = loopRead

\* C20: what the read loop printed is the concatenation of the chunks read
\* so far, each once and in order.
C20_ConsoleEqualsCaptured ==
  printed = (IF script = "prompt" THEN DecodeIgnore(loopRead)
                                  ELSE Join(output))
====
